---- MODULE Spec2Model ----
(***************************************************************************)
(* Capability-set codec of ironrdp-pdu (rdp/capability_sets.rs).           *)
(*                                                                         *)
(* Bytes are integers 0..255, a buffer is a sequence of bytes.  A cursor   *)
(* is a record [buf, pos, oob]: pos counts the bytes already read or       *)
(* written, and oob is set (and stays set) by a read or write that goes    *)
(* past the end of buf, which is where the Rust cursor panics.  Every      *)
(* decoder and encoder is an operator from a cursor to a result            *)
(* [tag, val, err, cur] with tag "ok", "err" or "panic".                   *)
(***************************************************************************)
EXTENDS Integers, Sequences, FiniteSets, TLC

VARIABLES input, wire, pc, op, enc, dec

vars == <<input, wire, pc, op, enc, dec>>

-----------------------------------------------------------------------------
(* Field sizes and names                                                   *)

SERVER_CHANNEL_ID == 1002

SOURCE_DESCRIPTOR_LENGTH_FIELD_SIZE == 2
COMBINED_CAPABILITIES_LENGTH_FIELD_SIZE == 2
NUMBER_CAPABILITIES_FIELD_SIZE == 2
PADDING_SIZE == 2
SESSION_ID_FIELD_SIZE == 4
CAPABILITY_SET_TYPE_FIELD_SIZE == 2
CAPABILITY_SET_LENGTH_FIELD_SIZE == 2
ORIGINATOR_ID_FIELD_SIZE == 2

NULL_TERMINATOR == <<0>>

U16_MAX == 256 * 256 - 1

ServerDemandActive_FIXED_PART_SIZE == SESSION_ID_FIELD_SIZE
ClientConfirmActive_FIXED_PART_SIZE == ORIGINATOR_ID_FIELD_SIZE
DemandActive_FIXED_PART_SIZE ==
    SOURCE_DESCRIPTOR_LENGTH_FIELD_SIZE + COMBINED_CAPABILITIES_LENGTH_FIELD_SIZE
CapabilitySet_FIXED_PART_SIZE ==
    CAPABILITY_SET_TYPE_FIELD_SIZE + CAPABILITY_SET_LENGTH_FIELD_SIZE
Font_FIXED_PART_SIZE == 4
Control_FIXED_PART_SIZE == 8
ColorCache_FIXED_PART_SIZE == 4

-----------------------------------------------------------------------------
(* Results: PduResult<T>, with the panic of an out-of-bounds cursor access *)

\* `let x = v;` followed by body(x): v is computed once.
Bind(v, body(_)) == CHOOSE r \in {body(x) : x \in {v}} : TRUE

NoValue == [variant |-> "None"]
NoError == [kind |-> "None", field |-> ""]

NotEnoughBytes(ctx) == [kind |-> "NotEnoughBytes", field |-> ctx]
InvalidMessage(fld) == [kind |-> "InvalidMessage", field |-> fld]

\* A call that touched bytes outside its buffer never returns: it panics.
Finish(tag, v, e, cur) ==
    Bind(cur, LAMBDA c :
        IF c.oob
        THEN [tag |-> "panic", val |-> NoValue, err |-> NoError, cur |-> c]
        ELSE [tag |-> tag, val |-> v, err |-> e, cur |-> c])

Ok(v, cur) == Finish("ok", v, NoError, cur)
Err(e, cur) == Finish("err", NoValue, e, cur)

\* The `?` operator on a callee that ran on a cursor of its own: its failure
\* becomes the caller's, on the caller's cursor.
Propagate(r, cur) ==
    Finish(r.tag, NoValue, r.err, [cur EXCEPT !.oob = cur.oob \/ r.tag = "panic"])

-----------------------------------------------------------------------------
(* ReadCursor and WriteCursor (crate::cursor)                              *)

NewCursor(bytes) == [buf |-> bytes, pos |-> 0, oob |-> FALSE]

\* cur.len(): the bytes left
CursorLen(cur) == IF cur.pos <= Len(cur.buf) THEN Len(cur.buf) - cur.pos ELSE 0

\* ensure_size!(in: cur, size: n)
EnsureSize(cur, n) == CursorLen(cur) >= n

InBounds(cur, n) == ~cur.oob /\ cur.pos + n <= Len(cur.buf)

Advance(cur, n) ==
    [cur EXCEPT !.pos = cur.pos + n, !.oob = ~InBounds(cur, n)]

U16At(bytes, i) == bytes[i] + 256 * bytes[i + 1]

\* read_u16: [v, cur]
ReadU16(cur) ==
    Bind(cur, LAMBDA c :
        [v |-> IF InBounds(c, 2) THEN U16At(c.buf, c.pos + 1) ELSE 0,
         cur |-> Advance(c, 2)])

\* read_u32: [v, cur]
ReadU32(cur) ==
    Bind(cur, LAMBDA c :
        [v |-> IF InBounds(c, 4)
               THEN U16At(c.buf, c.pos + 1) + 65536 * U16At(c.buf, c.pos + 3)
               ELSE 0,
         cur |-> Advance(c, 4)])

\* read_slice(n): [v, cur]
ReadSlice(cur, n) ==
    Bind(cur, LAMBDA c :
        [v |-> IF InBounds(c, n) THEN SubSeq(c.buf, c.pos + 1, c.pos + n) ELSE <<>>,
         cur |-> Advance(c, n)])

U16Bytes(v) == <<v % 256, (v \div 256) % 256>>

\* write_slice(bytes)
WriteSlice(cur, bytes) ==
    Bind(cur, LAMBDA c :
        IF InBounds(c, Len(bytes))
        THEN [c EXCEPT
                !.buf = SubSeq(c.buf, 1, c.pos) \o bytes
                            \o SubSeq(c.buf, c.pos + Len(bytes) + 1, Len(c.buf)),
                !.pos = c.pos + Len(bytes)]
        ELSE Advance(c, Len(bytes)))

\* write_u16(v)
WriteU16(cur, v) == WriteSlice(cur, U16Bytes(v))

\* write_u32(v)
WriteU32(cur, v) == WriteSlice(cur, U16Bytes(v % 65536) \o U16Bytes(v \div 65536))

\* write_padding!(cur, n)
WritePadding(cur, n) == WriteSlice(cur, [i \in 1..n |-> 0])

\* cast_length!(field, n): u16::try_from(n)
CastLengthOk(n) == n <= U16_MAX

\* The bytes of the destination written so far.
Written(cur) ==
    SubSeq(cur.buf, 1, IF cur.pos <= Len(cur.buf) THEN cur.pos ELSE Len(cur.buf))

-----------------------------------------------------------------------------
(* CapabilitySetType: the registry of wire type codes                      *)

CapabilitySetType ==
    (1 :> "General") @@ (2 :> "Bitmap") @@ (3 :> "Order") @@
    (4 :> "BitmapCache") @@ (5 :> "Control") @@ (7 :> "WindowActivation") @@
    (8 :> "Pointer") @@ (9 :> "Share") @@ (10 :> "ColorCache") @@
    (12 :> "Sound") @@ (13 :> "Input") @@ (14 :> "Font") @@ (15 :> "Brush") @@
    (16 :> "GlyphCache") @@ (17 :> "OffscreenBitmapCache") @@
    (18 :> "BitmapCacheHostSupport") @@ (19 :> "BitmapCacheRev2") @@
    (20 :> "VirtualChannel") @@ (21 :> "DrawNineGridCache") @@
    (22 :> "DrawGdiPlus") @@ (23 :> "Rail") @@ (24 :> "WindowList") @@
    (25 :> "DesktopComposition") @@ (26 :> "MultiFragmentUpdate") @@
    (27 :> "LargePointer") @@ (28 :> "SurfaceCommands") @@
    (29 :> "BitmapCodecs") @@ (30 :> "FrameAcknowledge")

\* The variants that carry their payload as Vec<u8>.
OpaqueVariants ==
    {"WindowActivation", "Share", "BitmapCacheHostSupport", "DesktopComposition",
     "DrawNineGridCache", "DrawGdiPlus", "Rail", "WindowList"}

\* The structured variants whose payload type is defined in this file.
LocalVariants == {"Font", "Control", "ColorCache"}

\* The structured variants whose payload type lives in a submodule.
SubmoduleVariants ==
    {CapabilitySetType[c] : c \in DOMAIN CapabilitySetType}
        \ (OpaqueVariants \cup LocalVariants)

\* A plausible slip: a code outside the registry falls back to an opaque blob.
CapabilitySetType_from_u16_Fallback(code) ==
    IF code \in DOMAIN CapabilitySetType
    THEN [some |-> TRUE, t |-> CapabilitySetType[code]]
    ELSE [some |-> TRUE, t |-> "Share"]

\* FromPrimitive::from_u16: Option<CapabilitySetType>
CapabilitySetType_from_u16(code) ==
    IF code \in DOMAIN CapabilitySetType
    THEN [some |-> TRUE, t |-> CapabilitySetType[code]]
    ELSE [some |-> FALSE, t |-> ""]

\* ToPrimitive::to_u16
CapabilitySetType_to_u16(variant) ==
    CHOOSE c \in DOMAIN CapabilitySetType : CapabilitySetType[c] = variant

-----------------------------------------------------------------------------
(* Leaf codecs: font::Font, control::Control, color_cache::ColorCache      *)

Font_size(capset) == Font_FIXED_PART_SIZE

Font_encode(capset, dst) ==
    IF ~EnsureSize(dst, Font_FIXED_PART_SIZE)
    THEN Err(NotEnoughBytes("Font"), dst)
    ELSE Ok(NoValue, WriteU16(WriteU16(dst, capset.font_support_flags), 0))

\* A plausible slip: the fixed part is read without the size check.
Font_decode_Unchecked(src) ==
    Bind(ReadU16(src), LAMBDA font_support_flags :
    Bind(ReadU16(font_support_flags.cur), LAMBDA pad2octets :
    Ok([font_support_flags |-> font_support_flags.v], pad2octets.cur)))

Font_decode(src) ==
    IF ~EnsureSize(src, Font_FIXED_PART_SIZE)
    THEN Err(NotEnoughBytes("Font"), src)
    ELSE Bind(ReadU16(src), LAMBDA font_support_flags :
         Bind(ReadU16(font_support_flags.cur), LAMBDA pad2octets :
         Ok([font_support_flags |-> font_support_flags.v], pad2octets.cur)))

Control_size(capset) == Control_FIXED_PART_SIZE

Control_encode(capset, dst) ==
    IF ~EnsureSize(dst, Control_FIXED_PART_SIZE)
    THEN Err(NotEnoughBytes("Control"), dst)
    ELSE Ok(NoValue,
            WriteU16(WriteU16(WriteU16(WriteU16(dst,
                capset.control_flags),
                capset.remote_detach_flag),
                capset.control_interest),
                capset.detach_interest))

\* A plausible slip: the two interest fields are read in the wrong order.
Control_decode_Swapped(src) ==
    IF ~EnsureSize(src, Control_FIXED_PART_SIZE)
    THEN Err(NotEnoughBytes("Control"), src)
    ELSE Bind(ReadU16(src), LAMBDA control_flags :
         Bind(ReadU16(control_flags.cur), LAMBDA remote_detach_flag :
         Bind(ReadU16(remote_detach_flag.cur), LAMBDA detach_interest :
         Bind(ReadU16(detach_interest.cur), LAMBDA control_interest :
         Ok([control_flags |-> control_flags.v,
             remote_detach_flag |-> remote_detach_flag.v,
             control_interest |-> control_interest.v,
             detach_interest |-> detach_interest.v],
            control_interest.cur)))))

Control_decode(src) ==
    IF ~EnsureSize(src, Control_FIXED_PART_SIZE)
    THEN Err(NotEnoughBytes("Control"), src)
    ELSE Bind(ReadU16(src), LAMBDA control_flags :
         Bind(ReadU16(control_flags.cur), LAMBDA remote_detach_flag :
         Bind(ReadU16(remote_detach_flag.cur), LAMBDA control_interest :
         Bind(ReadU16(control_interest.cur), LAMBDA detach_interest :
         Ok([control_flags |-> control_flags.v,
             remote_detach_flag |-> remote_detach_flag.v,
             control_interest |-> control_interest.v,
             detach_interest |-> detach_interest.v],
            detach_interest.cur)))))

ColorCache_size(capset) == ColorCache_FIXED_PART_SIZE

ColorCache_encode(capset, dst) ==
    IF ~EnsureSize(dst, ColorCache_FIXED_PART_SIZE)
    THEN Err(NotEnoughBytes("ColorCache"), dst)
    ELSE Ok(NoValue, WriteU16(WriteU16(dst, capset.color_cache_table_size), 0))

ColorCache_decode(src) ==
    IF ~EnsureSize(src, ColorCache_FIXED_PART_SIZE)
    THEN Err(NotEnoughBytes("ColorCache"), src)
    ELSE Bind(ReadU16(src), LAMBDA color_cache_table_size :
         Bind(ReadU16(color_cache_table_size.cur), LAMBDA pad2octets :
         Ok([color_cache_table_size |-> color_cache_table_size.v], pad2octets.cur)))

(* The payload types of the submodules (general, bitmap, order, ...) follow *)
(* the leaf contract only: a payload of size() bytes, written by encode and *)
(* taken back by decode from the bytes it is handed.                        *)

Submodule_size(capset) == Len(capset.payload)

Submodule_encode(capset, dst) ==
    IF ~EnsureSize(dst, Len(capset.payload))
    THEN Err(NotEnoughBytes("capset"), dst)
    ELSE Ok(NoValue, WriteSlice(dst, capset.payload))

Submodule_decode(src) ==
    Bind(ReadSlice(src, CursorLen(src)), LAMBDA payload :
    Ok([payload |-> payload.v], payload.cur))

\* capset.size() of the payload held by a variant
Leaf_size(variant, capset) ==
    CASE variant = "Font" -> Font_size(capset)
      [] variant = "Control" -> Control_size(capset)
      [] variant = "ColorCache" -> ColorCache_size(capset)
      [] variant \in OpaqueVariants -> Len(capset.buffer)
      [] OTHER -> Submodule_size(capset)

\* capset.encode(dst) of the payload held by a structured variant
Leaf_encode(variant, capset, dst) ==
    CASE variant = "Font" -> Font_encode(capset, dst)
      [] variant = "Control" -> Control_encode(capset, dst)
      [] variant = "ColorCache" -> ColorCache_encode(capset, dst)
      [] OTHER -> Submodule_encode(capset, dst)

\* T::decode of the payload type of a structured variant
Leaf_decode(variant, src) ==
    CASE variant = "Font" -> Font_decode(src)
      [] variant = "Control" -> Control_decode(src)
      [] variant = "ColorCache" -> ColorCache_decode(src)
      [] OTHER -> Submodule_decode(src)

\* crate::decode::<T>(bytes): T::decode over a fresh cursor on bytes
Decode(variant, bytes) == Leaf_decode(variant, NewCursor(bytes))

-----------------------------------------------------------------------------
(* CapabilitySet: [variant, capset]                                        *)

CapabilitySet_size(cs) ==
    CapabilitySet_FIXED_PART_SIZE + Leaf_size(cs.variant, cs.capset)

\* A plausible slip: the header is left out of the length field.
CapabilitySet_length_field_PayloadOnly(cs) == Leaf_size(cs.variant, cs.capset)

\* The value handed to cast_length!("len", ...) in every arm of encode.
CapabilitySet_length_field(cs) ==
    Leaf_size(cs.variant, cs.capset)
        + CAPABILITY_SET_TYPE_FIELD_SIZE + CAPABILITY_SET_LENGTH_FIELD_SIZE

CapabilitySet_encode(cs, dst) ==
    IF ~EnsureSize(dst, CapabilitySet_size(cs))
    THEN Err(NotEnoughBytes("CapabilitySet"), dst)
    ELSE Bind(WriteU16(dst, CapabilitySetType_to_u16(cs.variant)), LAMBDA d1 :
         Bind(CapabilitySet_length_field(cs), LAMBDA len :
         IF ~CastLengthOk(len)
         THEN Err(InvalidMessage("len"), d1)
         ELSE Bind(WriteU16(d1, len), LAMBDA d2 :
              IF cs.variant \in OpaqueVariants
              THEN Ok(NoValue, WriteSlice(d2, cs.capset.buffer))
              ELSE Leaf_encode(cs.variant, cs.capset, d2))))

\* The match on capability_set_type over the payload slice.
CapabilitySet_dispatch(capability_set_type, capability_set_buffer) ==
    IF capability_set_type \in OpaqueVariants
    THEN Ok([buffer |-> capability_set_buffer], NewCursor(capability_set_buffer))
    ELSE Decode(capability_set_type, capability_set_buffer)

\* A plausible slip: the payload length is a saturating subtraction, with
\* no check of the declared length against the header size.
CapabilitySet_decode_body_Saturating(capability_set_type, cur) ==
    Bind(ReadU16(cur), LAMBDA length :
    Bind(IF length.v < 4 THEN 0 ELSE length.v - 4, LAMBDA buffer_length :
    IF ~EnsureSize(length.cur, buffer_length)
    THEN Err(NotEnoughBytes("CapabilitySet"), length.cur)
    ELSE Bind(ReadSlice(length.cur, buffer_length), LAMBDA capability_set_buffer :
         Bind(CapabilitySet_dispatch(capability_set_type, capability_set_buffer.v),
              LAMBDA capset :
         IF capset.tag = "ok"
         THEN Ok([variant |-> capability_set_type, capset |-> capset.val],
                 capability_set_buffer.cur)
         ELSE Propagate(capset, capability_set_buffer.cur)))))

\* A plausible slip: the leaf decoder runs on the outer cursor, not on the
\* slice of the declared payload.
CapabilitySet_decode_body_Uncontained(capability_set_type, cur) ==
    Bind(ReadU16(cur), LAMBDA length :
    IF length.v < CAPABILITY_SET_TYPE_FIELD_SIZE + CAPABILITY_SET_LENGTH_FIELD_SIZE
    THEN Err(InvalidMessage("len"), length.cur)
    ELSE Bind(length.v - CAPABILITY_SET_TYPE_FIELD_SIZE
                       - CAPABILITY_SET_LENGTH_FIELD_SIZE, LAMBDA buffer_length :
         IF ~EnsureSize(length.cur, buffer_length)
         THEN Err(NotEnoughBytes("CapabilitySet"), length.cur)
         ELSE IF capability_set_type \in OpaqueVariants
         THEN Bind(ReadSlice(length.cur, buffer_length), LAMBDA capability_set_buffer :
              Ok([variant |-> capability_set_type,
                  capset |-> [buffer |-> capability_set_buffer.v]],
                 capability_set_buffer.cur))
         ELSE Bind(Leaf_decode(capability_set_type, length.cur), LAMBDA capset :
              IF capset.tag = "ok"
              THEN Ok([variant |-> capability_set_type, capset |-> capset.val],
                      capset.cur)
              ELSE capset)))

\* A plausible slip: the payload is sliced without the size check.
CapabilitySet_decode_body_Unchecked(capability_set_type, cur) ==
    Bind(ReadU16(cur), LAMBDA length :
    IF length.v < CAPABILITY_SET_TYPE_FIELD_SIZE + CAPABILITY_SET_LENGTH_FIELD_SIZE
    THEN Err(InvalidMessage("len"), length.cur)
    ELSE Bind(ReadSlice(length.cur, length.v - CAPABILITY_SET_TYPE_FIELD_SIZE
                                             - CAPABILITY_SET_LENGTH_FIELD_SIZE),
              LAMBDA capability_set_buffer :
         Bind(CapabilitySet_dispatch(capability_set_type, capability_set_buffer.v),
              LAMBDA capset :
         IF capset.tag = "ok"
         THEN Ok([variant |-> capability_set_type, capset |-> capset.val],
                 capability_set_buffer.cur)
         ELSE Propagate(capset, capability_set_buffer.cur))))

\* From the read of the length field to the end of decode.
CapabilitySet_decode_body(capability_set_type, cur) ==
    Bind(ReadU16(cur), LAMBDA length :
    IF length.v < CAPABILITY_SET_TYPE_FIELD_SIZE + CAPABILITY_SET_LENGTH_FIELD_SIZE
    THEN Err(InvalidMessage("len"), length.cur)
    ELSE Bind(length.v - CAPABILITY_SET_TYPE_FIELD_SIZE
                       - CAPABILITY_SET_LENGTH_FIELD_SIZE, LAMBDA buffer_length :
         IF ~EnsureSize(length.cur, buffer_length)
         THEN Err(NotEnoughBytes("CapabilitySet"), length.cur)
         ELSE Bind(ReadSlice(length.cur, buffer_length), LAMBDA capability_set_buffer :
              Bind(CapabilitySet_dispatch(capability_set_type, capability_set_buffer.v),
                   LAMBDA capset :
              IF capset.tag = "ok"
              THEN Ok([variant |-> capability_set_type, capset |-> capset.val],
                      capability_set_buffer.cur)
              ELSE Propagate(capset, capability_set_buffer.cur)))))

CapabilitySet_decode(src) ==
    IF ~EnsureSize(src, CapabilitySet_FIXED_PART_SIZE)
    THEN Err(NotEnoughBytes("CapabilitySet"), src)
    ELSE Bind(ReadU16(src), LAMBDA code :
         Bind(CapabilitySetType_from_u16(code.v), LAMBDA capability_set_type :
         IF ~capability_set_type.some
         THEN Err(InvalidMessage("capabilitySetType"), code.cur)
         ELSE CapabilitySet_decode_body(capability_set_type.t, code.cur)))

-----------------------------------------------------------------------------
(* DemandActive: [source_descriptor, capability_sets]                      *)

\* utils::decode_string(bytes, CharacterSet::Ansi, false)
decode_string(bytes) ==
    IF \E i \in 1..Len(bytes) : bytes[i] >= 128
    THEN Err([kind |-> "Utf8", field |-> "string"], NewCursor(bytes))
    ELSE Ok([s |-> IF Len(bytes) > 0 /\ bytes[Len(bytes)] = 0
                   THEN SubSeq(bytes, 1, Len(bytes) - 1)
                   ELSE bytes],
            NewCursor(bytes))

RECURSIVE SumSizes(_)
\* self.capability_sets.iter().map(PduEncode::size).sum()
\* The sum is taken over the two halves of the list, which keeps the
\* evaluation shallow for a list of more than 65535 records.
SumSizes(sets) ==
    IF sets = <<>> THEN 0
    ELSE IF Len(sets) = 1 THEN CapabilitySet_size(sets[1])
    ELSE Bind(SubSeq(sets, 1, Len(sets) \div 2), LAMBDA front :
         Bind(SubSeq(sets, Len(sets) \div 2 + 1, Len(sets)), LAMBDA back :
         SumSizes(front) + SumSizes(back)))

\* A plausible slip: the terminator byte is left out of the size.
DemandActive_size_NoTerminator(pdu) ==
    DemandActive_FIXED_PART_SIZE
        + Len(pdu.source_descriptor)
        + NUMBER_CAPABILITIES_FIELD_SIZE
        + PADDING_SIZE
        + SumSizes(pdu.capability_sets)

DemandActive_size(pdu) ==
    DemandActive_FIXED_PART_SIZE
        + Len(pdu.source_descriptor)
        + 1
        + NUMBER_CAPABILITIES_FIELD_SIZE
        + PADDING_SIZE
        + SumSizes(pdu.capability_sets)

RECURSIVE EncodeSets(_, _)
\* for capability_set in self.capability_sets.iter() { capability_set.encode(dst)?; }
EncodeSets(sets, dst) ==
    IF sets = <<>> THEN Ok(NoValue, dst)
    ELSE Bind(CapabilitySet_encode(Head(sets), dst), LAMBDA r :
         IF r.tag = "ok" THEN EncodeSets(Tail(sets), r.cur) ELSE r)

\* A plausible slip: the combined length leaves out the count and padding.
DemandActive_encode_SumOnly(pdu, dst) ==
    IF ~EnsureSize(dst, DemandActive_size(pdu))
    THEN Err(NotEnoughBytes("DemandActive"), dst)
    ELSE Bind(SumSizes(pdu.capability_sets), LAMBDA combined_length :
         Bind(Len(pdu.source_descriptor) + Len(NULL_TERMINATOR), LAMBDA source_desc_len :
         IF ~CastLengthOk(source_desc_len)
         THEN Err(InvalidMessage("sourceDescLen"), dst)
         ELSE Bind(WriteU16(dst, source_desc_len), LAMBDA d1 :
              IF ~CastLengthOk(combined_length)
              THEN Err(InvalidMessage("combinedLen"), d1)
              ELSE Bind(WriteSlice(WriteSlice(WriteU16(d1, combined_length),
                                              pdu.source_descriptor),
                                   NULL_TERMINATOR), LAMBDA d4 :
                   IF ~CastLengthOk(Len(pdu.capability_sets))
                   THEN Err(InvalidMessage("len"), d4)
                   ELSE Bind(WritePadding(WriteU16(d4, Len(pdu.capability_sets)), 2),
                             LAMBDA d6 :
                        EncodeSets(pdu.capability_sets, d6))))))

\* A plausible slip: the combined length is narrowed with a wrapping cast.
DemandActive_encode_Truncating(pdu, dst) ==
    IF ~EnsureSize(dst, DemandActive_size(pdu))
    THEN Err(NotEnoughBytes("DemandActive"), dst)
    ELSE Bind(SumSizes(pdu.capability_sets)
                  + NUMBER_CAPABILITIES_FIELD_SIZE + PADDING_SIZE, LAMBDA combined_length :
         Bind(Len(pdu.source_descriptor) + Len(NULL_TERMINATOR), LAMBDA source_desc_len :
         IF ~CastLengthOk(source_desc_len)
         THEN Err(InvalidMessage("sourceDescLen"), dst)
         ELSE Bind(WriteSlice(WriteSlice(WriteU16(WriteU16(dst, source_desc_len),
                                                  combined_length % (U16_MAX + 1)),
                                         pdu.source_descriptor),
                              NULL_TERMINATOR), LAMBDA d4 :
              IF ~CastLengthOk(Len(pdu.capability_sets))
              THEN Err(InvalidMessage("len"), d4)
              ELSE Bind(WritePadding(WriteU16(d4, Len(pdu.capability_sets)), 2),
                        LAMBDA d6 :
                   EncodeSets(pdu.capability_sets, d6)))))

DemandActive_encode(pdu, dst) ==
    IF ~EnsureSize(dst, DemandActive_size(pdu))
    THEN Err(NotEnoughBytes("DemandActive"), dst)
    ELSE Bind(SumSizes(pdu.capability_sets)
                  + NUMBER_CAPABILITIES_FIELD_SIZE + PADDING_SIZE, LAMBDA combined_length :
         Bind(Len(pdu.source_descriptor) + Len(NULL_TERMINATOR), LAMBDA source_desc_len :
         IF ~CastLengthOk(source_desc_len)
         THEN Err(InvalidMessage("sourceDescLen"), dst)
         ELSE Bind(WriteU16(dst, source_desc_len), LAMBDA d1 :
              IF ~CastLengthOk(combined_length)
              THEN Err(InvalidMessage("combinedLen"), d1)
              ELSE Bind(WriteSlice(WriteSlice(WriteU16(d1, combined_length),
                                              pdu.source_descriptor),
                                   NULL_TERMINATOR), LAMBDA d4 :
                   IF ~CastLengthOk(Len(pdu.capability_sets))
                   THEN Err(InvalidMessage("len"), d4)
                   ELSE Bind(WritePadding(WriteU16(d4, Len(pdu.capability_sets)), 2),
                             LAMBDA d6 :
                        EncodeSets(pdu.capability_sets, d6))))))

RECURSIVE DecodeSets_Reversed(_, _, _)
\* A plausible slip: each decoded record is put at the front of the list.
DecodeSets_Reversed(src, remaining, capability_sets) ==
    IF remaining = 0 THEN Ok([capability_sets |-> capability_sets], src)
    ELSE Bind(CapabilitySet_decode(src), LAMBDA r :
         IF r.tag = "ok"
         THEN DecodeSets_Reversed(r.cur, remaining - 1, <<r.val>> \o capability_sets)
         ELSE r)

RECURSIVE DecodeSets_Partial(_, _, _)
\* A plausible slip: the loop ends at the first record that fails and the
\* records decoded so far are returned.
DecodeSets_Partial(src, remaining, capability_sets) ==
    IF remaining = 0 THEN Ok([capability_sets |-> capability_sets], src)
    ELSE Bind(CapabilitySet_decode(src), LAMBDA r :
         IF r.tag = "ok"
         THEN DecodeSets_Partial(r.cur, remaining - 1, Append(capability_sets, r.val))
         ELSE Ok([capability_sets |-> capability_sets], src))

RECURSIVE DecodeSets(_, _, _)
\* for _ in 0..capability_sets_count { capability_sets.push(CapabilitySet::decode(src)?); }
DecodeSets(src, remaining, capability_sets) ==
    IF remaining = 0 THEN Ok([capability_sets |-> capability_sets], src)
    ELSE Bind(CapabilitySet_decode(src), LAMBDA r :
         IF r.tag = "ok"
         THEN DecodeSets(r.cur, remaining - 1, Append(capability_sets, r.val))
         ELSE r)

\* A plausible slip: the combined length is checked against the bytes the
\* count, the padding and the records took.
DemandActive_decode_Validating(src) ==
    IF ~EnsureSize(src, DemandActive_FIXED_PART_SIZE)
    THEN Err(NotEnoughBytes("DemandActive"), src)
    ELSE Bind(ReadU16(src), LAMBDA source_descriptor_length :
         Bind(ReadU16(source_descriptor_length.cur), LAMBDA combined_capabilities_length :
         IF ~EnsureSize(combined_capabilities_length.cur, source_descriptor_length.v)
         THEN Err(NotEnoughBytes("DemandActive"), combined_capabilities_length.cur)
         ELSE Bind(ReadSlice(combined_capabilities_length.cur,
                             source_descriptor_length.v), LAMBDA raw :
              Bind(decode_string(raw.v), LAMBDA source_descriptor :
              IF source_descriptor.tag # "ok"
              THEN Propagate(source_descriptor, raw.cur)
              ELSE IF ~EnsureSize(raw.cur, 2 + 2)
              THEN Err(NotEnoughBytes("DemandActive"), raw.cur)
              ELSE Bind(ReadU16(raw.cur), LAMBDA capability_sets_count :
                   Bind(ReadU16(capability_sets_count.cur), LAMBDA padding :
                   Bind(DecodeSets(padding.cur, capability_sets_count.v, <<>>),
                        LAMBDA sets :
                   IF sets.tag # "ok" THEN sets
                   ELSE IF combined_capabilities_length.v # sets.cur.pos - raw.cur.pos
                   THEN Err(InvalidMessage("combinedLen"), sets.cur)
                   ELSE Ok([source_descriptor |-> source_descriptor.val.s,
                            capability_sets |-> sets.val.capability_sets],
                           sets.cur))))))))

DemandActive_decode(src) ==
    IF ~EnsureSize(src, DemandActive_FIXED_PART_SIZE)
    THEN Err(NotEnoughBytes("DemandActive"), src)
    ELSE Bind(ReadU16(src), LAMBDA source_descriptor_length :
         Bind(ReadU16(source_descriptor_length.cur), LAMBDA combined_capabilities_length :
         IF ~EnsureSize(combined_capabilities_length.cur, source_descriptor_length.v)
         THEN Err(NotEnoughBytes("DemandActive"), combined_capabilities_length.cur)
         ELSE Bind(ReadSlice(combined_capabilities_length.cur,
                             source_descriptor_length.v), LAMBDA raw :
              Bind(decode_string(raw.v), LAMBDA source_descriptor :
              IF source_descriptor.tag # "ok"
              THEN Propagate(source_descriptor, raw.cur)
              ELSE IF ~EnsureSize(raw.cur, 2 + 2)
              THEN Err(NotEnoughBytes("DemandActive"), raw.cur)
              ELSE Bind(ReadU16(raw.cur), LAMBDA capability_sets_count :
                   Bind(ReadU16(capability_sets_count.cur), LAMBDA padding :
                   Bind(DecodeSets(padding.cur, capability_sets_count.v, <<>>),
                        LAMBDA sets :
                   IF sets.tag # "ok" THEN sets
                   ELSE Ok([source_descriptor |-> source_descriptor.val.s,
                            capability_sets |-> sets.val.capability_sets],
                           sets.cur))))))))

-----------------------------------------------------------------------------
(* ServerDemandActive: [pdu];  ClientConfirmActive: [originator_id, pdu]   *)

ServerDemandActive_size(msg) ==
    ServerDemandActive_FIXED_PART_SIZE + DemandActive_size(msg.pdu)

ServerDemandActive_encode(msg, dst) ==
    IF ~EnsureSize(dst, ServerDemandActive_size(msg))
    THEN Err(NotEnoughBytes("ServerDemandActive"), dst)
    ELSE Bind(DemandActive_encode(msg.pdu, dst), LAMBDA r :
         IF r.tag # "ok" THEN r
         ELSE Ok(NoValue, WriteU32(r.cur, 0)))

\* A plausible slip: the trailing session id is not read.
ServerDemandActive_decode_NoTrailer(src) ==
    Bind(DemandActive_decode(src), LAMBDA pdu :
    IF pdu.tag # "ok" THEN pdu
    ELSE Ok([pdu |-> pdu.val], pdu.cur))

ServerDemandActive_decode(src) ==
    Bind(DemandActive_decode(src), LAMBDA pdu :
    IF pdu.tag # "ok" THEN pdu
    ELSE IF ~EnsureSize(pdu.cur, 4)
    THEN Err(NotEnoughBytes("ServerDemandActive"), pdu.cur)
    ELSE Bind(ReadU32(pdu.cur), LAMBDA session_id :
         Ok([pdu |-> pdu.val], session_id.cur)))

ClientConfirmActive_size(msg) ==
    ClientConfirmActive_FIXED_PART_SIZE + DemandActive_size(msg.pdu)

ClientConfirmActive_encode(msg, dst) ==
    IF ~EnsureSize(dst, ClientConfirmActive_FIXED_PART_SIZE)
    THEN Err(NotEnoughBytes("ClientConfirmActive"), dst)
    ELSE Bind(WriteU16(dst, msg.originator_id), LAMBDA d1 :
         DemandActive_encode(msg.pdu, d1))

\* A plausible slip: an originator id other than the server channel is refused.
ClientConfirmActive_decode_ServerOnly(src) ==
    IF ~EnsureSize(src, ClientConfirmActive_FIXED_PART_SIZE)
    THEN Err(NotEnoughBytes("ClientConfirmActive"), src)
    ELSE Bind(ReadU16(src), LAMBDA originator_id :
         IF originator_id.v # SERVER_CHANNEL_ID
         THEN Err(InvalidMessage("originatorId"), originator_id.cur)
         ELSE Bind(DemandActive_decode(originator_id.cur), LAMBDA pdu :
              IF pdu.tag # "ok" THEN pdu
              ELSE Ok([originator_id |-> originator_id.v, pdu |-> pdu.val], pdu.cur)))

ClientConfirmActive_decode(src) ==
    IF ~EnsureSize(src, ClientConfirmActive_FIXED_PART_SIZE)
    THEN Err(NotEnoughBytes("ClientConfirmActive"), src)
    ELSE Bind(ReadU16(src), LAMBDA originator_id :
         Bind(DemandActive_decode(originator_id.cur), LAMBDA pdu :
         IF pdu.tag # "ok" THEN pdu
         ELSE Ok([originator_id |-> originator_id.v, pdu |-> pdu.val], pdu.cur)))

-----------------------------------------------------------------------------
(* Inputs: the values handed to encode and the byte buffers handed to      *)
(* decode                                                                  *)

MaxBlob == 2
MaxRecords == 2
MaxAvail == 10
MaxDeclared == 13
MaxCode == 40

BlobBytes == {7, 255}
Blobs == UNION {[1..n -> BlobBytes] : n \in 0..MaxBlob}
U16Sample == {0, 1, 6, SERVER_CHANNEL_ID, 4660, U16_MAX}
FieldSample == {0, 2, 4660}

FontValues ==
    {[variant |-> "Font", capset |-> [font_support_flags |-> f]] : f \in U16Sample}
ControlValues ==
    {[variant |-> "Control",
      capset |-> [control_flags |-> a, remote_detach_flag |-> b,
                  control_interest |-> c, detach_interest |-> d]] :
        a \in FieldSample, b \in FieldSample, c \in FieldSample, d \in FieldSample}
ColorCacheValues ==
    {[variant |-> "ColorCache", capset |-> [color_cache_table_size |-> t]] :
        t \in U16Sample}
OpaqueValues ==
    {[variant |-> v, capset |-> [buffer |-> b]] : v \in OpaqueVariants, b \in Blobs}
SubmoduleValues ==
    {[variant |-> v, capset |-> [payload |-> b]] : v \in SubmoduleVariants, b \in Blobs}

CapabilitySetValues ==
    FontValues \cup ControlValues \cup ColorCacheValues \cup OpaqueValues
        \cup SubmoduleValues

\* The records put into envelope values.
EnvelopeSets ==
    {[variant |-> "Font", capset |-> [font_support_flags |-> 1]],
     [variant |-> "ColorCache", capset |-> [color_cache_table_size |-> 6]],
     [variant |-> "Control",
      capset |-> [control_flags |-> 0, remote_detach_flag |-> 0,
                  control_interest |-> 2, detach_interest |-> 2]],
     [variant |-> "Share", capset |-> [buffer |-> <<7, 255>>]],
     [variant |-> "Rail", capset |-> [buffer |-> <<>>]]}

Descriptors == {<<>>, <<82, 68, 80>>}

SeqsUpTo(S, n) == UNION {[1..k -> S] : k \in 0..n}

DemandActiveValues ==
    {[source_descriptor |-> d, capability_sets |-> sets] :
        d \in Descriptors, sets \in SeqsUpTo(EnvelopeSets, MaxRecords)}

Rooms(size) == {r \in {size - 1, size, size + 3, size + 7} : r >= 0}

\* Values whose lengths sit on either side of what a 16-bit field holds.
Filler(n) == [i \in 1..n |-> 7]

ShareOfSize(size) == [variant |-> "Share", capset |-> [buffer |-> Filler(size - 4)]]

HalfCombined == (U16_MAX - 4) \div 2

EdgeRecords == {ShareOfSize(U16_MAX), ShareOfSize(U16_MAX + 1)}

EdgeEnvelopes ==
    {[source_descriptor |-> Filler(U16_MAX - 1), capability_sets |-> <<>>],
     [source_descriptor |-> Filler(U16_MAX), capability_sets |-> <<>>],
     [source_descriptor |-> <<>>,
      capability_sets |-> <<ShareOfSize(HalfCombined), ShareOfSize(HalfCombined + 1)>>],
     [source_descriptor |-> <<>>,
      capability_sets |-> <<ShareOfSize(HalfCombined + 1), ShareOfSize(HalfCombined + 1)>>],
     [source_descriptor |-> <<>>,
      capability_sets |-> [i \in 1..(U16_MAX + 1) |-> ShareOfSize(4)]]}

\* Originator ids: every value of the low byte, of the high byte, and of both.
OriginatorSample ==
    {b : b \in 0..255} \cup {256 * b : b \in 0..255} \cup {257 * b : b \in 0..255}
        \cup {SERVER_CHANNEL_ID - 1, SERVER_CHANNEL_ID, SERVER_CHANNEL_ID + 1}

EdgeInputs ==
    {[kind |-> "CapabilitySet", value |-> cs, room |-> r] :
        cs \in EdgeRecords, r \in {U16_MAX, U16_MAX + 1}}
    \cup
    UNION {{[kind |-> "DemandActive",
             value |-> [originator_id |-> SERVER_CHANNEL_ID, pdu |-> p], room |-> r] :
               r \in {8, DemandActive_size(p) + 6}} : p \in EdgeEnvelopes}

EncodeInputs ==
    {[kind |-> "CapabilitySet", value |-> cs, room |-> r] :
        cs \in CapabilitySetValues, r \in Rooms(4) \cup Rooms(8) \cup Rooms(12)}
    \cup
    {[kind |-> "DemandActive", value |-> [originator_id |-> o, pdu |-> p], room |-> r] :
        o \in {0, SERVER_CHANNEL_ID, U16_MAX}, p \in DemandActiveValues,
        r \in {8, 14, 24, 37, 64}}
    \cup EdgeInputs
    \cup {[kind |-> "DemandActive",
           value |-> [originator_id |-> o,
                      pdu |-> [source_descriptor |-> <<82, 68, 80>>,
                               capability_sets |-> <<>>]],
           room |-> 64] : o \in OriginatorSample}

Payload(seed, n) == [i \in 1..n |-> (seed + i) % 256]

RecordWire(code, length, payload) == U16Bytes(code) \o U16Bytes(length) \o payload

TypeSample == {0, 1, 5, 6, 7, 9, 10, 11, 14, 30, 31, 32, 257, 270, U16_MAX}
DeclaredSample == (0..MaxDeclared) \cup {20, U16_MAX}

Prefixes(bytes) == {SubSeq(bytes, 1, k) : k \in 0..Len(bytes)}

RecordWires ==
    {RecordWire(code, length, Payload(seed, n)) :
        code \in TypeSample, length \in DeclaredSample,
        seed \in {0, 240}, n \in 0..MaxAvail}
    \cup {RecordWire(code, 8, Payload(0, 4)) : code \in 0..MaxCode}
    \cup Prefixes(RecordWire(14, 8, <<>>))

FontOk == <<14, 0, 8, 0, 1, 0, 0, 0>>
ShareOk == <<9, 0, 6, 0, 7, 9>>
FontLong == <<14, 0, 12, 0, 1, 0, 0, 0, 5, 5, 5, 5>>
FontShort == <<14, 0, 7, 0, 1, 0, 0>>
BadType == <<31, 0, 8, 0, 1, 2, 3, 4>>
BadLen == <<14, 0, 3, 0>>
TruncPayload == <<9, 0, 20, 0, 1, 2>>

WireRecords == {FontOk, ShareOk, FontLong, FontShort, BadType, BadLen, TruncPayload}

RECURSIVE Concat(_)
Concat(seqs) == IF seqs = <<>> THEN <<>> ELSE Head(seqs) \o Concat(Tail(seqs))

EnvelopeWire(desc, dl, cl, count, recs, trailer) ==
    U16Bytes(dl) \o U16Bytes(cl) \o desc \o U16Bytes(count) \o U16Bytes(0)
        \o Concat(recs) \o trailer

Trailers == {<<>>, <<0, 0, 0, 0>>, <<1, 2>>, FontOk}

EnvelopeWiresOf(recs) ==
    {EnvelopeWire(desc, Len(desc), cl, Len(recs) + extra, recs, trailer) :
        desc \in {<<0>>, <<82, 68, 80, 0>>},
        cl \in {0, 4 + Len(Concat(recs))},
        extra \in {0, 1},
        trailer \in Trailers}

EnvelopeWires == UNION {EnvelopeWiresOf(recs) : recs \in SeqsUpTo(WireRecords, MaxRecords)}

ClientWires ==
    {U16Bytes(o) \o EnvelopeWire(<<82, 68, 80, 0>>, 4, 4 + Len(Concat(recs)),
                                 Len(recs), recs, <<>>) :
        o \in {0, SERVER_CHANNEL_ID, U16_MAX},
        recs \in SeqsUpTo(WireRecords, MaxRecords)}
    \cup {U16Bytes(o) \o EnvelopeWire(<<0>>, 1, 12, 1, <<FontOk>>, <<>>) :
              o \in OriginatorSample}

DamagedWires ==
    {EnvelopeWire(<<200, 0>>, 2, 12, 1, <<FontOk>>, <<>>),
     EnvelopeWire(<<82>>, 9, 12, 1, <<>>, <<>>),
     EnvelopeWire(<<>>, U16_MAX, 12, 1, <<FontOk>>, <<>>),
     EnvelopeWire(<<>>, 0, 4, U16_MAX, <<FontOk, ShareOk>>, <<>>)}
    \cup Prefixes(EnvelopeWire(<<82, 0>>, 2, 18, 2, <<FontOk, ShareOk>>, <<0, 0, 0, 0>>))
    \cup Prefixes(<<234, 3>> \o EnvelopeWire(<<0>>, 1, 12, 1, <<FontOk>>, <<>>))

WireInputs == RecordWires \cup EnvelopeWires \cup ClientWires \cup DamagedWires

-----------------------------------------------------------------------------
(* The state machine: a value is encoded and the bytes decoded again, or   *)
(* received bytes are decoded                                              *)

NoResult == [tag |-> "none", val |-> NoValue, err |-> NoError, cur |-> NewCursor(<<>>)]

\* The destination handed to encode: room bytes, none of them written yet.
FreshBuffer(room) == NewCursor([i \in 1..room |-> 204])

Init ==
    /\ pc = "start"
    /\ op = "none"
    /\ enc = NoResult
    /\ dec = NoResult
    /\ \/ input \in EncodeInputs /\ wire = <<>>
       \/ input = [kind |-> "bytes"] /\ wire \in WireInputs

Encoded(name, r) ==
    /\ enc' = r
    /\ wire' = Written(r.cur)
    /\ op' = name
    /\ pc' = "encoded"
    /\ UNCHANGED <<input, dec>>

EncodeCapabilitySet ==
    /\ pc = "start"
    /\ input.kind = "CapabilitySet"
    /\ Encoded("CapabilitySet::encode",
               CapabilitySet_encode(input.value, FreshBuffer(input.room)))

EncodeDemandActive ==
    /\ pc = "start"
    /\ input.kind = "DemandActive"
    /\ Encoded("DemandActive::encode",
               DemandActive_encode(input.value.pdu, FreshBuffer(input.room)))

EncodeServerDemandActive ==
    /\ pc = "start"
    /\ input.kind = "DemandActive"
    /\ Encoded("ServerDemandActive::encode",
               ServerDemandActive_encode([pdu |-> input.value.pdu],
                                         FreshBuffer(input.room)))

EncodeClientConfirmActive ==
    /\ pc = "start"
    /\ input.kind = "DemandActive"
    /\ Encoded("ClientConfirmActive::encode",
               ClientConfirmActive_encode(input.value, FreshBuffer(input.room)))

\* Bytes are there to decode: received ones, or the ones `encoder` wrote.
Receivable(encoder) ==
    \/ pc = "start" /\ input.kind = "bytes"
    \/ pc = "encoded" /\ op = encoder /\ enc.tag = "ok"

Decoded(name, r) ==
    /\ dec' = r
    /\ op' = name
    /\ pc' = "decoded"
    /\ UNCHANGED <<input, wire, enc>>

DecodeCapabilitySet ==
    /\ Receivable("CapabilitySet::encode")
    /\ Decoded("CapabilitySet::decode", CapabilitySet_decode(NewCursor(wire)))

DecodeDemandActive ==
    /\ Receivable("DemandActive::encode")
    /\ Decoded("DemandActive::decode", DemandActive_decode(NewCursor(wire)))

DecodeServerDemandActive ==
    /\ Receivable("ServerDemandActive::encode")
    /\ Decoded("ServerDemandActive::decode", ServerDemandActive_decode(NewCursor(wire)))

DecodeClientConfirmActive ==
    /\ Receivable("ClientConfirmActive::encode")
    /\ Decoded("ClientConfirmActive::decode", ClientConfirmActive_decode(NewCursor(wire)))

Next ==
    \/ EncodeCapabilitySet
    \/ EncodeDemandActive
    \/ EncodeServerDemandActive
    \/ EncodeClientConfirmActive
    \/ DecodeCapabilitySet
    \/ DecodeDemandActive
    \/ DecodeServerDemandActive
    \/ DecodeClientConfirmActive

Spec == Init /\ [][Next]_vars

TypeOK ==
    /\ pc \in {"start", "encoded", "decoded"}
    /\ enc.tag \in {"none", "ok", "err", "panic"}
    /\ dec.tag \in {"none", "ok", "err", "panic"}

-----------------------------------------------------------------------------
(* Properties                                                              *)

Registered == DOMAIN CapabilitySetType

WireCode == U16At(wire, 1)
WireLength == U16At(wire, 3)

\* CapabilitySet::decode has run on received bytes that hold a whole header.
RecordDecoded ==
    /\ pc = "decoded"
    /\ op = "CapabilitySet::decode"
    /\ Len(wire) >= 4

\* C1: whatever bytes a decoder is handed, it ends with a value or with a
\* typed error, no read went past the end of the buffer, and the read
\* position is within the buffer.
C1_DecodeStaysInBounds ==
    pc = "decoded" =>
        /\ dec.tag \in {"ok", "err"}
        /\ ~dec.cur.oob
        /\ dec.cur.pos <= Len(wire)
        /\ (dec.tag = "ok") = (dec.val # NoValue)
        /\ (dec.tag = "err") = (dec.err # NoError)

C1_Witness ==
    /\ pc = "decoded"
    /\ input.kind = "bytes"
    /\ op = "ServerDemandActive::decode"
    /\ dec.tag = "err"
    /\ dec.err = NotEnoughBytes("Font")

\* C2: a record of an opaque variant or of Font, Control or ColorCache that
\* is encoded and decoded again comes back equal: same variant, same fields,
\* same blob.
C2_RecordRoundTrip ==
    /\ pc = "decoded"
    /\ input.kind = "CapabilitySet"
    /\ input.value.variant \in OpaqueVariants \cup LocalVariants
    => /\ dec.tag = "ok"
       /\ dec.val = input.value

C2_Witness ==
    /\ pc = "decoded"
    /\ input.kind = "CapabilitySet"
    /\ input.value.variant = "Control"
    /\ input.value.capset.control_interest # input.value.capset.detach_interest
    /\ dec.val = input.value

\* size() of the value the encoder that has just run was given
EncodedSize ==
    CASE op = "CapabilitySet::encode" -> CapabilitySet_size(input.value)
      [] op = "DemandActive::encode" -> DemandActive_size(input.value.pdu)
      [] op = "ServerDemandActive::encode" ->
            ServerDemandActive_size([pdu |-> input.value.pdu])
      [] op = "ClientConfirmActive::encode" -> ClientConfirmActive_size(input.value)

\* C3: an encode that succeeds has written exactly size() bytes.
C3_EncodeWritesSize ==
    pc = "encoded" /\ enc.tag = "ok" =>
        /\ enc.cur.pos = EncodedSize
        /\ Len(wire) = EncodedSize

C3_Witness ==
    /\ pc = "encoded"
    /\ enc.tag = "ok"
    /\ op = "ServerDemandActive::encode"
    /\ Len(input.value.pdu.capability_sets) = 2
    /\ Len(input.value.pdu.source_descriptor) = 3
    /\ input.room > Len(wire)

\* C4: the length field of an encoded record is 4 + the payload size, which
\* is the record's size() and the number of bytes the record takes.
C4_LengthFieldIsRecordSize ==
    pc = "encoded" /\ op = "CapabilitySet::encode" /\ enc.tag = "ok" =>
        /\ WireLength = 4 + Leaf_size(input.value.variant, input.value.capset)
        /\ WireLength = CapabilitySet_size(input.value)
        /\ WireLength = Len(wire)

C4_Witness ==
    /\ pc = "encoded"
    /\ op = "CapabilitySet::encode"
    /\ enc.tag = "ok"
    /\ input.value.variant = "Rail"
    /\ Len(input.value.capset.buffer) = 2
    /\ WireLength = 6

\* C5: a registered type code with a declared length L >= 4 and fewer than
\* L - 4 bytes after the header fails with not-enough-bytes; nothing past the
\* header is read.
C5_TruncatedPayloadRejected ==
    /\ RecordDecoded
    /\ WireCode \in Registered
    /\ WireLength >= 4
    /\ Len(wire) - 4 < WireLength - 4
    => /\ dec.tag = "err"
       /\ dec.err.kind = "NotEnoughBytes"
       /\ ~dec.cur.oob
       /\ dec.cur.pos = 4

C5_Witness ==
    /\ RecordDecoded
    /\ WireCode \in Registered
    /\ WireLength = 20
    /\ Len(wire) = 4 + 10
    /\ dec.err = NotEnoughBytes("CapabilitySet")

\* C6: a registered type code with a declared length of 0..3 fails with the
\* invalid-length error, whatever follows the header; no payload byte is read.
C6_ShortLengthRejected ==
    /\ RecordDecoded
    /\ WireCode \in Registered
    /\ WireLength < 4
    => /\ dec.tag = "err"
       /\ dec.err = InvalidMessage("len")
       /\ dec.cur.pos = 4

C6_Witness ==
    /\ RecordDecoded
    /\ WireCode \in Registered
    /\ WireLength = 3
    /\ Len(wire) > 4
    /\ dec.err = InvalidMessage("len")

\* C7: the registry holds 28 codes, and a record whose type code is not one
\* of them fails with the invalid-type error: no record comes out of it.
C7_RegistryClosed ==
    /\ Cardinality(Registered) = 28
    /\ RecordDecoded /\ WireCode \notin Registered
       => /\ dec.tag = "err"
          /\ dec.err = InvalidMessage("capabilitySetType")
          /\ dec.val = NoValue

C7_Witness ==
    /\ RecordDecoded
    /\ WireCode = 31
    /\ WireLength = 8
    /\ Len(wire) = 8
    /\ dec.err = InvalidMessage("capabilitySetType")

\* The cursor at offset pos of the received bytes.
WireAt(pos) == [buf |-> wire, pos |-> pos, oob |-> FALSE]

\* Where the inner DemandActive starts for the decoder that has run.
InnerStart == IF op = "ClientConfirmActive::decode" THEN 2 ELSE 0

\* The envelope header (lengths, descriptor, count, padding) is all there
\* and the descriptor is text.
HeaderOk(start) ==
    /\ Len(wire) >= start + 4
    /\ Len(wire) >= start + 4 + U16At(wire, start + 1) + 4
    /\ \A i \in 1..U16At(wire, start + 1) : wire[start + 4 + i] < 128

CountOffset(start) == start + 4 + U16At(wire, start + 1)
WireCount(start) == U16At(wire, CountOffset(start) + 1)

RECURSIVE RecordStart(_, _)
\* The offset of the i-th record, each one following the declared length of
\* the one before it.
RecordStart(start, i) ==
    IF i = 1 THEN CountOffset(start) + 4
    ELSE Bind(RecordStart(start, i - 1), LAMBDA prev : prev + U16At(wire, prev + 3))

RECURSIVE FirstFailure(_, _)
\* The error of the first of the n records from pos on that does not decode,
\* NoError when all n decode.
FirstFailure(pos, n) ==
    IF n = 0 THEN NoError
    ELSE Bind(CapabilitySet_decode(WireAt(pos)), LAMBDA r :
         IF r.tag # "ok" THEN r.err
         ELSE FirstFailure(pos + U16At(wire, pos + 3), n - 1))

EnvelopeDecoders ==
    {"DemandActive::decode", "ServerDemandActive::decode", "ClientConfirmActive::decode"}

\* C8: a DemandActive::decode that succeeds returns as many records as the
\* count field says, the i-th one being the decoding of the i-th record on
\* the wire, and stops right after the last of them.
C8_CountRecordsInWireOrder ==
    pc = "decoded" /\ op = "DemandActive::decode" /\ dec.tag = "ok" =>
        /\ Len(dec.val.capability_sets) = WireCount(0)
        /\ \A i \in 1..WireCount(0) :
              dec.val.capability_sets[i] = CapabilitySet_decode(WireAt(RecordStart(0, i))).val
        /\ dec.cur.pos = RecordStart(0, WireCount(0) + 1)

C8_Witness ==
    /\ pc = "decoded"
    /\ input.kind = "bytes"
    /\ op = "DemandActive::decode"
    /\ dec.tag = "ok"
    /\ WireCount(0) = 2
    /\ dec.val.capability_sets[1].variant = "Font"
    /\ dec.val.capability_sets[2].variant = "Share"
    /\ SubSeq(wire, dec.cur.pos + 1, Len(wire)) = FontOk

\* C9: (a) a Font or ColorCache record declaring fewer than 8 bytes, or a
\* Control record declaring fewer than 12, fails however many bytes follow;
\* (b) a record that decodes leaves the cursor at its declared length.
C9_PayloadContained ==
    /\ /\ RecordDecoded
       /\ \/ WireCode \in {10, 14} /\ WireLength < 8
          \/ WireCode = 5 /\ WireLength < 12
       => dec.tag = "err"
    /\ RecordDecoded /\ dec.tag = "ok" => dec.cur.pos = WireLength

C9_Witness ==
    /\ RecordDecoded
    /\ WireCode = 5
    /\ WireLength = 11
    /\ Len(wire) >= 12
    /\ dec.err = NotEnoughBytes("Control")

\* C10: when one of the declared records of an envelope does not decode, the
\* envelope decoder returns that record's error and no value.
C10_AllOrNothing ==
    /\ pc = "decoded"
    /\ op \in EnvelopeDecoders
    /\ HeaderOk(InnerStart)
    /\ FirstFailure(CountOffset(InnerStart) + 4, WireCount(InnerStart)) # NoError
    => /\ dec.tag = "err"
       /\ dec.val = NoValue
       /\ dec.err = FirstFailure(CountOffset(InnerStart) + 4, WireCount(InnerStart))

C10_Witness ==
    /\ pc = "decoded"
    /\ op = "ClientConfirmActive::decode"
    /\ HeaderOk(2)
    /\ WireCount(2) = 2
    /\ CapabilitySet_decode(WireAt(RecordStart(2, 1))).tag = "ok"
    /\ dec.err = InvalidMessage("capabilitySetType")

\* The lengths DemandActive::encode narrows to 16 bits.
DescriptorLength(pdu) == Len(pdu.source_descriptor) + 1
CombinedLength(pdu) == 4 + SumSizes(pdu.capability_sets)

Overflows(pdu) ==
    \/ DescriptorLength(pdu) > U16_MAX
    \/ Len(pdu.capability_sets) > U16_MAX
    \/ CombinedLength(pdu) > U16_MAX

OverflowError(e) ==
    e.kind = "InvalidMessage" /\ e.field \in {"sourceDescLen", "combinedLen", "len"}

C12_OriginatorIdVerbatim ==
    /\ pc = "decoded" /\ op = "ClientConfirmActive::decode" /\ Len(wire) >= 2 =>
          /\ dec.tag = DemandActive_decode(WireAt(2)).tag
          /\ dec.tag = "err" => dec.err = DemandActive_decode(WireAt(2)).err
          /\ dec.tag = "ok" =>
                /\ dec.val.originator_id = U16At(wire, 1)
                /\ dec.val.pdu = DemandActive_decode(WireAt(2)).val
    /\ pc = "encoded" /\ op = "ClientConfirmActive::encode" /\ enc.tag = "ok" =>
          U16At(wire, 1) = input.value.originator_id
    /\ pc = "decoded" /\ op = "ClientConfirmActive::decode"
          /\ input.kind = "DemandActive" =>
          /\ dec.tag = "ok"
          /\ dec.val.originator_id = input.value.originator_id

\* An originator id that is not the server channel has gone through encode
\* and decode and come back as it was.
C12_Witness ==
    /\ pc = "decoded" /\ op = "ClientConfirmActive::decode"
    /\ input.kind = "DemandActive"
    /\ input.value.originator_id = U16_MAX
    /\ U16At(wire, 1) = U16_MAX
    /\ dec.tag = "ok" /\ dec.val.originator_id = U16_MAX

\* The received bytes with the four bytes after offset pos set to zero.
ZeroedAfter(pos) ==
    [i \in 1..Len(wire) |-> IF i > pos /\ i <= pos + 4 THEN 0 ELSE wire[i]]

\* C13: ServerDemandActive::decode requires 4 more bytes after the last
\* record: with fewer than 4 left it fails with the truncated-input error,
\* otherwise it consumes exactly 4 bytes and returns the inner DemandActive,
\* the same one as when those 4 bytes are zero; ServerDemandActive::encode
\* writes the inner DemandActive followed by four zero bytes.
C13_TrailerReadAndIgnored ==
    /\ pc = "decoded" /\ op = "ServerDemandActive::decode" =>
          Bind(DemandActive_decode(WireAt(0)), LAMBDA inner :
              /\ inner.tag # "ok" => dec.tag = inner.tag /\ dec.err = inner.err
              /\ inner.tag = "ok" /\ Len(wire) - inner.cur.pos < 4 =>
                    dec.tag = "err" /\ dec.err.kind = "NotEnoughBytes"
              /\ inner.tag = "ok" /\ Len(wire) - inner.cur.pos >= 4 =>
                    /\ dec.tag = "ok"
                    /\ dec.val = [pdu |-> inner.val]
                    /\ dec.cur.pos = inner.cur.pos + 4
                    /\ ServerDemandActive_decode(NewCursor(ZeroedAfter(inner.cur.pos))).val
                          = dec.val)
    /\ pc = "encoded" /\ op = "ServerDemandActive::encode" /\ enc.tag = "ok" =>
          wire = Written(DemandActive_encode(input.value.pdu, FreshBuffer(input.room)).cur)
                     \o <<0, 0, 0, 0>>

\* Received bytes whose trailer is not zero have been decoded, with bytes
\* left over after the trailer.
C13_Witness ==
    /\ pc = "decoded" /\ op = "ServerDemandActive::decode"
    /\ input.kind = "bytes"
    /\ dec.tag = "ok"
    /\ Len(dec.val.pdu.capability_sets) > 0
    /\ wire[dec.cur.pos - 3] # 0
    /\ Len(wire) > dec.cur.pos

\* The bytes one record encodes to, in a destination of exactly its size.
RecordBytes(cs) ==
    Written(CapabilitySet_encode(cs, FreshBuffer(CapabilitySet_size(cs))).cur)

RecordsBytes(sets) == Concat([i \in 1..Len(sets) |-> RecordBytes(sets[i])])

\* C14: a successful DemandActive::encode writes, in this order: the
\* descriptor length + 1, the combined length 4 + sum of the record sizes,
\* the descriptor bytes, one zero terminator, the record count, two zero
\* padding bytes, and each record's encoding in list order; the combined
\* length is the number of bytes from the count field to the end.
C14_EnvelopeLayout ==
    pc = "encoded" /\ op = "DemandActive::encode" /\ enc.tag = "ok" =>
        Bind(RecordsBytes(input.value.pdu.capability_sets), LAMBDA records :
            /\ wire = U16Bytes(Len(input.value.pdu.source_descriptor) + 1)
                         \o U16Bytes(4 + Len(records))
                         \o input.value.pdu.source_descriptor
                         \o <<0>>
                         \o U16Bytes(Len(input.value.pdu.capability_sets))
                         \o <<0, 0>>
                         \o records
            /\ U16At(wire, 3)
                  = Len(wire) - (4 + Len(input.value.pdu.source_descriptor) + 1))

\* A descriptor and two different records have been encoded.
C14_Witness ==
    /\ pc = "encoded" /\ op = "DemandActive::encode" /\ enc.tag = "ok"
    /\ Len(input.value.pdu.source_descriptor) = 3
    /\ Len(input.value.pdu.capability_sets) = 2
    /\ input.value.pdu.capability_sets[1] # input.value.pdu.capability_sets[2]
    /\ Len(wire) < input.room

CombinedSample == {0, 1, 4, 12, 255, 256, U16_MAX}

\* The received bytes with the combined-length field set to cl.
WithCombinedLength(cl) ==
    [i \in 1..Len(wire) |->
        IF i = 3 THEN cl % 256 ELSE IF i = 4 THEN cl \div 256 ELSE wire[i]]

\* C15: DemandActive::decode never uses the combined-length field.  The
\* outcome on a buffer (the value or the error, and the bytes consumed) is
\* the outcome on the buffer that differs from it in the two bytes of that
\* field only, whatever they hold: zero, or a value that disagrees with
\* the records that follow.
C15_CombinedLengthUnused ==
    pc = "decoded" /\ op = "DemandActive::decode" =>
        \A cl \in CombinedSample :
            Bind(DemandActive_decode(NewCursor(WithCombinedLength(cl))), LAMBDA other :
                /\ other.tag = dec.tag
                /\ other.val = dec.val
                /\ other.err = dec.err
                /\ other.cur.pos = dec.cur.pos)

\* Received bytes with a combined length of zero ahead of two records have
\* been decoded to those two records.
C15_Witness ==
    /\ pc = "decoded" /\ op = "DemandActive::decode"
    /\ input.kind = "bytes"
    /\ dec.tag = "ok"
    /\ U16At(wire, 3) = 0
    /\ Len(dec.val.capability_sets) = 2

StructuredLeaves == {"Font", "ColorCache", "Control"}

\* C16: when a record of a structured leaf (Font, ColorCache, Control) is
\* decoded successfully, the leaf decoder has consumed exactly the
\* length - 4 declared payload bytes it was handed; hence a Font or
\* ColorCache record decodes only with a declared length of 8 and a
\* Control record only with a declared length of 12.
C16_LeafConsumesDeclaredPayload ==
    pc = "decoded" /\ op = "CapabilitySet::decode" /\ dec.tag = "ok"
        /\ dec.val.variant \in StructuredLeaves =>
        /\ Decode(dec.val.variant, SubSeq(wire, 5, WireLength)).cur.pos = WireLength - 4
        /\ dec.val.variant \in {"Font", "ColorCache"} => WireLength = 8
        /\ dec.val.variant = "Control" => WireLength = 12

\* C17: order of the record checks.  When the 4-byte header carries both a
\* type code that is not registered and a declared length below 4,
\* CapabilitySet::decode fails with the invalid-length error: the length is
\* checked before the type code is looked up.
C17_LengthCheckedBeforeType ==
    pc = "decoded" /\ op = "CapabilitySet::decode" /\ Len(wire) >= 4
        /\ WireCode \notin Registered /\ WireLength < 4 =>
        dec.tag = "err" /\ dec.err = InvalidMessage("len")

\* The destination as it was handed to the encode of the input.
EncodeStart == FreshBuffer(input.room)

\* C18: whenever encode of a CapabilitySet, DemandActive,
\* ServerDemandActive or ClientConfirmActive returns an error (too little
\* room, or a length that overflows 16 bits), no byte of the destination
\* has been written and the write position is where it was before.
C18_FailedEncodeWritesNothing ==
    pc = "encoded" /\ enc.tag = "err" =>
        /\ enc.cur.pos = EncodeStart.pos
        /\ enc.cur.buf = EncodeStart.buf

====
